---- MODULE Spec2Model ----
(***************************************************************************)
(* A model of the bilive-danmaku client: the packet codec (packet.rs), the  *)
(* typestate room service with its connection pipeline (room.rs), and the  *)
(* Connector with its host selection (connector.rs).                       *)
(*                                                                         *)
(* Bytes are naturals below 256.  TLC's integers are 32 bits wide and      *)
(* signed, so every byte the model feeds to a big-endian u32 read is below *)
(* 128 (see ByteAlphabet); within that range the u32 arithmetic is exact.  *)
(***************************************************************************)
EXTENDS Integers, Sequences, FiniteSets, TLC

(***************************************************************************)
(* Bounds of the model.                                                    *)
(***************************************************************************)
\* longest body drawn as a raw codec input
MaxBodyLen == 2
\* largest number of frames in one compressed bundle
MaxBundle == 2

(***************************************************************************)
(* packet.rs: big-endian readers and writers.                              *)
(***************************************************************************)
\* a writer that puts the least significant byte first
write_u32_le(val) ==
    << val % 256, (val \div 256) % 256, (val \div 65536) % 256,
       (val \div 16777216) % 256 >>

\* the writers return the bytes they put at the front of the buffer
write_u32_be(val) ==
    << (val \div 16777216) % 256, (val \div 65536) % 256,
       (val \div 256) % 256, val % 256 >>

write_u16_be(val) == << (val \div 256) % 256, val % 256 >>

\* split_array_ref::<N> panics on a slice shorter than N
read_u32_be_panics(buffer) == Len(buffer) < 4

read_u32_be(buffer) ==
    buffer[1] * 16777216 + buffer[2] * 65536 + buffer[3] * 256 + buffer[4]

read_u16_be(buffer) == buffer[1] * 256 + buffer[2]

\* buffer[from..to) of Rust, on a 1-based sequence
Slice(buffer, from, to) == SubSeq(buffer, from + 1, to)

(***************************************************************************)
(* packet.rs: Operation, RawPacket.                                        *)
(***************************************************************************)
\* enum Operation, cast with `as u32`: Handshake = 0 .. UnregisterReply = 16
Operation == 0 .. 16
OpHeartbeat == 2
OpAuth == 7

HEAD_SIZE == 16

\* b"[object Object]"
ObjectObject == << 91, 111, 98, 106, 101, 99, 116, 32, 79, 98, 106, 101, 99, 116, 93 >>

RawPacket(size, header_size, proto_code, opcode, sequence, data) ==
    [ head |-> [ size |-> size, header_size |-> header_size,
                 proto_code |-> proto_code, opcode |-> opcode,
                 sequence |-> sequence ],
      data |-> data ]

heartbeat == RawPacket(31, 16, 1, OpHeartbeat, 1, ObjectObject)

build(op, data) == RawPacket(16 + Len(data), 16, 1, op, 1, data)

ser(p) ==
    write_u32_be(p.head.size) \o write_u16_be(p.head.header_size)
      \o write_u16_be(p.head.proto_code) \o write_u32_be(p.head.opcode)
      \o write_u32_be(p.head.sequence) \o p.data

\* the five reads need 4 + 2 + 2 + 4 + 4 bytes
from_buffer_panics(buffer) == Len(buffer) < HEAD_SIZE

\* a reader that takes opcode and sequence in the wrong order
from_buffer_swapped(buffer) ==
    [ head |-> [ size |-> read_u32_be(buffer),
                 header_size |-> read_u16_be(Slice(buffer, 4, 6)),
                 proto_code |-> read_u16_be(Slice(buffer, 6, 8)),
                 opcode |-> read_u32_be(Slice(buffer, 12, 16)),
                 sequence |-> read_u32_be(Slice(buffer, 8, 12)) ],
      data |-> Slice(buffer, 16, Len(buffer)) ]

from_buffer(buffer) ==
    RawPacket(read_u32_be(buffer),
              read_u16_be(Slice(buffer, 4, 6)),
              read_u16_be(Slice(buffer, 6, 8)),
              read_u32_be(Slice(buffer, 8, 12)),
              read_u32_be(Slice(buffer, 12, 16)),
              Slice(buffer, 16, Len(buffer)))

\* one round of the loop of from_buffers panics: the size read, the slice
\* buffer[ptr..ptr + size], or from_buffer on a slice shorter than a header
RECURSIVE from_buffers_panics_at(_, _)
from_buffers_panics_at(buffer, ptr) ==
    IF ptr + 4 > Len(buffer) THEN TRUE
    ELSE LET size == read_u32_be(Slice(buffer, ptr, ptr + 4))
         IN  IF ptr + size > Len(buffer) \/ size < HEAD_SIZE THEN TRUE
             ELSE IF ptr + size >= Len(buffer) THEN FALSE
             ELSE from_buffers_panics_at(buffer, ptr + size)

from_buffers_panics(buffer) == from_buffers_panics_at(buffer, 0)

RECURSIVE from_buffers_at(_, _)
from_buffers_at(buffer, ptr) ==
    LET size == read_u32_be(Slice(buffer, ptr, ptr + 4))
        packet == from_buffer(Slice(buffer, ptr, ptr + size))
    IN  IF ptr + size >= Len(buffer) THEN << packet >>
        ELSE << packet >> \o from_buffers_at(buffer, ptr + size)

from_buffers(buffer) == from_buffers_at(buffer, 0)

(***************************************************************************)
(* packet.rs: Data and RawPacket::get_datas.                               *)
(*                                                                         *)
(* serde_json and brotli are external crates.  Each is represented by a    *)
(* total function on byte strings that has both of its outcomes:           *)
(*  - from_slice accepts a non-empty string of the digits 1..9 (a JSON     *)
(*    number) and rejects the rest, which is exact for the bodies over     *)
(*    ByteAlphabet that the model decodes as payload kind 0;               *)
(*  - the decompressor accepts a stream that opens with BrotliStored and   *)
(*    yields the bytes after it (possibly none), and fails on the rest.    *)
(***************************************************************************)
Json(value) == [ type |-> "Json", json |-> value ]
Popularity(n) == [ type |-> "Popularity", popularity |-> n ]
Deflate(s) == [ type |-> "Deflate", s |-> s ]

serde_json_from_slice_ok(body) ==
    /\ body # << >>
    /\ \A i \in 1 .. Len(body) : body[i] \in 49 .. 57

BrotliStored == 6

brotli_read_to_end_ok(body) == body # << >> /\ body[1] = BrotliStored

brotli_read_to_end(body) == Tail(body)

\* what the test inputs of the model use to build a compressed body
brotli_compress(buffer) == << BrotliStored >> \o buffer

RECURSIVE get_datas_panics(_)
get_datas_panics(p) ==
    CASE p.head.proto_code = 1 -> read_u32_be_panics(p.data)
      [] p.head.proto_code = 3 ->
           IF ~ brotli_read_to_end_ok(p.data) THEN FALSE
           ELSE LET buffer == brotli_read_to_end(p.data)
                IN  \/ from_buffers_panics(buffer)
                    \/ LET unpacked == from_buffers(buffer)
                       IN  \E i \in 1 .. Len(unpacked) :
                               get_datas_panics(unpacked[i])
      [] OTHER -> FALSE

RECURSIVE get_datas(_)
RECURSIVE get_datas_each(_)
\* the nested for loops of the proto_code 3 arm
get_datas_each(unpacked) ==
    IF unpacked = << >> THEN << >>
    ELSE get_datas(Head(unpacked)) \o get_datas_each(Tail(unpacked))

get_datas(p) ==
    CASE p.head.proto_code = 0 ->
           IF serde_json_from_slice_ok(p.data) THEN << Json(p.data) >> ELSE << >>
      [] p.head.proto_code = 1 -> << Popularity(read_u32_be(p.data)) >>
      [] p.head.proto_code = 2 -> << Deflate(<< >>) >>
      [] p.head.proto_code = 3 ->
           IF brotli_read_to_end_ok(p.data)
           THEN get_datas_each(from_buffers(brotli_read_to_end(p.data)))
           ELSE << >>
      [] OTHER -> << >>

(***************************************************************************)
(* The codec on its own: the inputs are drawn in the initial state and the *)
(* actions apply the operations of packet.rs to them.                      *)
(***************************************************************************)
\* the bytes of the raw bodies: NUL, the digit 1, an opening brace
ByteAlphabet == { 0, 49, 123 }

RECURSIVE SeqsUpTo(_, _)
SeqsUpTo(S, n) ==
    IF n = 0 THEN { << >> }
    ELSE LET shorter == SeqsUpTo(S, n - 1)
         IN  shorter \cup { Append(s, x) : s \in { t \in shorter : Len(t) = n - 1 }, x \in S }

RawBodies == SeqsUpTo(ByteAlphabet, MaxBodyLen)

\* the proto codes the inputs carry: the four the codec knows and one it
\* does not
ProtoCodes == 0 .. 4

\* frames a peer may pack into a compressed bundle: two structured values,
\* popularity counters, a bundle of one counter, a counter cut short, and a
\* structured value that does not parse
PopularityPacket(n) == RawPacket(20, 16, 1, 5, 1, write_u32_be(n))

InnerPackets ==
    { RawPacket(17, 16, 0, 5, 1, << 49 >>),
      RawPacket(17, 16, 0, 5, 1, << 50 >>),
      PopularityPacket(42),
      PopularityPacket(7),
      RawPacket(37, 16, 3, 5, 1, brotli_compress(ser(PopularityPacket(9)))),
      RawPacket(19, 16, 1, 5, 1, << 0, 0, 49 >>),
      RawPacket(17, 16, 0, 5, 1, << 123 >>) }

RECURSIVE Concat(_)
Concat(ss) == IF ss = << >> THEN << >> ELSE Head(ss) \o Concat(Tail(ss))

RECURSIVE SerEach(_)
SerEach(ps) == IF ps = << >> THEN << >> ELSE << ser(Head(ps)) >> \o SerEach(Tail(ps))

PacketSeqs == SeqsUpTo(InnerPackets, MaxBundle)

Bundles == { Concat(SerEach(ps)) : ps \in PacketSeqs }

\* a bundle whose last frame lost its last byte
TruncatedBundles == { SubSeq(b, 1, Len(b) - 1) : b \in Bundles \ { << >> } }

CodecBodies ==
    RawBodies \cup { << 0, 0, 0, 42 >> }
      \cup { brotli_compress(b) : b \in RawBodies \cup Bundles \cup TruncatedBundles }

VARIABLES
    cOp,      \* input: the operation code
    cProto,   \* input: the proto code of a frame received from a peer
    cBody,    \* input: the body
    cStage,   \* the operation applied last
    cPacket,  \* the frame built by build or heartbeat
    cBytes,   \* ser of cPacket
    cParsed,  \* from_buffer of cBytes
    cFrames,  \* from_buffers of cBytes
    cDatas    \* get_datas of the received frame: [panic, datas]

codecVars == << cOp, cProto, cBody, cStage, cPacket, cBytes, cParsed, cFrames, cDatas >>

VARIABLES
    svc,         \* the typestate held by the caller: Uninited, Disconnected,
                 \*   Connected; Dropped once Connected was dropped; Panicked
                 \*   once init or connect unwound
    roomid,      \* RoomService::roomid
    key,         \* Disconnected::key
    host_list,   \* Disconnected::host_list
    callerPc,    \* where connect stands: idle, connect_async, auth_send,
                 \*   auth_reply
    result,      \* what the last init or connect returned
    initRoomid,  \* the roomid the last init was called with
    authReply,   \* what rx.next() gave the handshake
    wsConnects,  \* calls of connect_async so far
    authSent,    \* Auth frames written so far
    wsFirst,     \* operation code of the first frame written, -1 if none
    hbPc,        \* heartbeat loop: idle, send, blocked, sleep, panicked
    sendPc,      \* outbound loop: idle, recv, write, done
    sendCur,     \* the frame the outbound loop is writing
    recvPc,      \* inbound loop: idle, run, blocked, done, panicked
    recvCur,     \* the frame the inbound loop is enqueueing
    procPc,      \* dispatcher loop: idle, run, publish, done, panicked
    procEvents,  \* the events of the frame in hand still to be sent
    outQ,        \* mpsc outbound queue
    inQ,         \* mpsc inbound queue
    wsClosing,   \* the peer's close message has been read
    nRead,       \* binary messages read by the inbound loop
    bcBuf,       \* broadcast ring buffer: slot -> [pos, val]
    bcTail,      \* broadcast tail position
    subs,        \* the receivers handed out by subscribe
    published,   \* every event the dispatcher sent, in order
    spawned,     \* calls of tokio::spawn so far
    lastWrite,   \* what the last tx.send of the outbound loop returned
    arrived,     \* the frames the inbound loop parsed, in the order read
    taken,       \* frames the dispatcher received and decoded
    connector,   \* the Connector of connector.rs, NoConnector before init
    connectorResult, \* what the last operation on the Connector returned
    connectedHost    \* the host the last Connector::connect went to, 0 if none

lifeVars == << svc, roomid, key, host_list, callerPc, result, initRoomid,
               authReply, wsConnects, authSent >>
pipeVars == << wsFirst, hbPc, sendPc, sendCur, recvPc, recvCur, procPc, procEvents,
               outQ, inQ,
               wsClosing, nRead >>
bcVars == << bcBuf, bcTail, subs, published >>
auxVars == << spawned, lastWrite, arrived, taken >>
connectorVars == << connector, connectorResult, connectedHost >>
roomVars == << lifeVars, pipeVars, bcVars, auxVars, connectorVars >>

vars == << codecVars, roomVars >>

NoPacket == RawPacket(0, 0, 0, 0, 0, << >>)
NoConnector == [ state |-> "None" ]
NoResult == [ op |-> "none" ]
NoDatas == [ panic |-> FALSE, datas |-> << >> ]

\* the frame a peer sent with the drawn proto code and body
ReceivedPacket == RawPacket(16 + Len(cBody), 16, cProto, cOp, 1, cBody)

CodecIdle ==
    /\ cStage = "input" /\ cPacket = NoPacket /\ cBytes = << >>
    /\ cParsed = NoPacket /\ cFrames = << >> /\ cDatas = NoDatas

CodecInit ==
    /\ cOp \in Operation
    /\ cProto \in ProtoCodes
    /\ cBody \in CodecBodies
    /\ CodecIdle

CodecBuild ==
    /\ cStage = "input"
    /\ cPacket' = build(cOp, cBody)
    /\ cStage' = "build"
    /\ UNCHANGED << cOp, cProto, cBody, cBytes, cParsed, cFrames, cDatas >>
    /\ UNCHANGED roomVars

CodecHeartbeat ==
    /\ cStage = "input"
    /\ cPacket' = heartbeat
    /\ cStage' = "heartbeat"
    /\ UNCHANGED << cOp, cProto, cBody, cBytes, cParsed, cFrames, cDatas >>
    /\ UNCHANGED roomVars

CodecSer ==
    /\ cStage \in { "build", "heartbeat" }
    /\ cBytes' = ser(cPacket)
    /\ cStage' = IF cStage = "build" THEN "build_ser" ELSE "heartbeat_ser"
    /\ UNCHANGED << cOp, cProto, cBody, cPacket, cParsed, cFrames, cDatas >>
    /\ UNCHANGED roomVars

CodecFromBuffer ==
    /\ cStage \in { "build_ser", "heartbeat_ser" }
    /\ ~ from_buffer_panics(cBytes)
    /\ cParsed' = from_buffer(cBytes)
    /\ cStage' = IF cStage = "build_ser" THEN "build_ser_from_buffer"
                 ELSE "heartbeat_ser_from_buffer"
    /\ UNCHANGED << cOp, cProto, cBody, cPacket, cBytes, cFrames, cDatas >>
    /\ UNCHANGED roomVars

CodecGetDatas ==
    /\ cStage = "input"
    /\ cDatas' = IF get_datas_panics(ReceivedPacket)
                 THEN [ panic |-> TRUE, datas |-> << >> ]
                 ELSE [ panic |-> FALSE, datas |-> get_datas(ReceivedPacket) ]
    /\ cStage' = "get_datas"
    /\ UNCHANGED << cOp, cProto, cBody, cPacket, cBytes, cParsed, cFrames >>
    /\ UNCHANGED roomVars

\* from_buffer and from_buffers on the buffer a compressed body holds: one
\* frame, two frames, or frames whose last byte is missing
CodecFromBuffers ==
    /\ cStage = "input"
    /\ brotli_read_to_end_ok(cBody)
    /\ LET buffer == brotli_read_to_end(cBody)
       IN  /\ ~ from_buffer_panics(buffer)
           /\ cBytes' = buffer
           /\ cParsed' = from_buffer(buffer)
           /\ cFrames' = IF from_buffers_panics(buffer) THEN << >>
                         ELSE from_buffers(buffer)
    /\ cStage' = "from_buffers"
    /\ UNCHANGED << cOp, cProto, cBody, cPacket, cDatas >>
    /\ UNCHANGED roomVars

CodecNext ==
    \/ CodecBuild
    \/ CodecHeartbeat
    \/ CodecSer
    \/ CodecFromBuffer
    \/ CodecFromBuffers
    \/ CodecGetDatas


(***************************************************************************)
(* room.rs: the room service and its connection.                           *)
(***************************************************************************)

\* calls of connect_async one run may make
MaxConnects == 2
\* room identifiers
MaxRoomId == 2
\* hosts in a host list
MaxHosts == 2
\* binary messages the peer sends after the handshake
MaxMsgs == 2
\* the owners of receivers: the two subscribers of a connection
Receivers == { 1, 2 }

\* let channel_buffer_size = 64, scaled down
channel_buffer_size == 1
\* broadcast::channel::<Event>(128), scaled down
BacklogCap == 2

RoomIds == 1 .. MaxRoomId
Tokens == { "token" }
HostLists == { [ i \in 1 .. n |-> i ] : n \in 0 .. MaxHosts }

(***************************************************************************)
(* RoomService<Uninited>::init.  The two reqwest::get calls are the        *)
(* inputs: each fails, answers with a bad status, fails to deliver its     *)
(* body, delivers a body that does not parse, or delivers one that does.   *)
(***************************************************************************)
HttpFailures == { "HttpError", "BadStatus", "BodyError" }

RoomPlayInfoOutcomes ==
    { [ kind |-> k, room_id |-> 0 ] :
          k \in HttpFailures \cup { "Unparsable", "NoData" } }
      \cup { [ kind |-> "Data", room_id |-> r ] : r \in RoomIds }

DanmuInfoOutcomes ==
    { [ kind |-> k, token |-> "", host_list |-> << >> ] :
          k \in HttpFailures \cup { "Unparsable" } }
      \cup { [ kind |-> "Data", token |-> t, host_list |-> h ] :
               t \in Tokens, h \in HostLists }

\* self.roomid after the first call
resolved_roomid(id, info) == IF info.kind = "Data" THEN info.room_id ELSE id

\* a resolution that leaves self.roomid alone
resolved_roomid_kept(id, info) == id

init(info, danmu) ==
    /\ svc = "Uninited"
    /\ initRoomid' = roomid
    /\ IF info.kind \in HttpFailures
       THEN /\ result' = "InitErr"
            /\ UNCHANGED << svc, roomid, key, host_list >>
       ELSE IF info.kind = "Unparsable"
       THEN /\ result' = "InitPanic"
            /\ svc' = "Panicked"
            /\ UNCHANGED << roomid, key, host_list >>
       ELSE IF danmu.kind \in HttpFailures
       THEN /\ result' = "InitErr"
            /\ roomid' = resolved_roomid(roomid, info)
            /\ UNCHANGED << svc, key, host_list >>
       ELSE IF danmu.kind = "Unparsable"
       THEN /\ result' = "InitPanic"
            /\ svc' = "Panicked"
            /\ roomid' = resolved_roomid(roomid, info)
            /\ UNCHANGED << key, host_list >>
       ELSE /\ result' = "InitOk"
            /\ svc' = "Disconnected"
            /\ roomid' = resolved_roomid(roomid, info)
            /\ key' = danmu.token
            /\ host_list' = danmu.host_list
    /\ UNCHANGED << callerPc, authReply, wsConnects, authSent, pipeVars, bcVars >>
    /\ UNCHANGED auxVars
    /\ UNCHANGED << codecVars, connectorVars >>

(***************************************************************************)
(* RoomService<Disconnected>::connect and RoomConnection::start, one       *)
(* action per await.                                                       *)
(***************************************************************************)
\* a check that lets every host list through
host_list_never_empty(list) == FALSE

\* self.status.host_list.is_empty()
host_list_is_empty(list) == list = << >>

NoEvent == [ type |-> "None" ]

\* the handshake reply: a binary message holding a frame, a binary message
\* too short for a header, another kind of message, an error, the end
AuthReplies ==
    { [ kind |-> "Binary", bin |-> ser(build(8, << 123 >>)) ],
      [ kind |-> "Binary", bin |-> << 0, 0, 0, 16 >> ],
      [ kind |-> "Text", bin |-> << >> ],
      [ kind |-> "Close", bin |-> << >> ],
      [ kind |-> "Err", bin |-> << >> ],
      [ kind |-> "End", bin |-> << >> ] }

connect ==
    /\ svc = "Disconnected"
    /\ callerPc = "idle"
    /\ IF host_list_is_empty(host_list)
       THEN /\ result' = "HostListIsEmpty"
            /\ UNCHANGED << callerPc, wsConnects >>
       ELSE /\ wsConnects < MaxConnects
            /\ wsConnects' = wsConnects + 1
            /\ callerPc' = "connect_async"
            /\ UNCHANGED result
    /\ UNCHANGED << svc, roomid, key, host_list, initRoomid, authReply, authSent,
                    pipeVars, bcVars >>
    /\ UNCHANGED auxVars
    /\ UNCHANGED << codecVars, connectorVars >>

\* a connect that starts the loops of the connection as soon as the stream
\* is open
connect_async_spawning(ok) ==
    /\ callerPc = "connect_async"
    /\ IF ok
       THEN /\ callerPc' = "auth_send"
            /\ hbPc' = "send" /\ sendPc' = "recv" /\ recvPc' = "run"
            /\ spawned' = spawned + 3
            /\ UNCHANGED result
       ELSE /\ callerPc' = "idle" /\ result' = "WsError"
            /\ UNCHANGED << hbPc, sendPc, recvPc, spawned >>
    /\ UNCHANGED << svc, roomid, key, host_list, initRoomid, authReply, wsConnects,
                    authSent, wsFirst, sendCur, recvCur, procPc, procEvents, outQ,
                    inQ, wsClosing, nRead, bcVars >>
    /\ UNCHANGED << lastWrite, arrived, taken >>
    /\ UNCHANGED << codecVars, connectorVars >>

\* tokio_ws2::connect_async(url).await
connect_async(ok) ==
    /\ callerPc = "connect_async"
    /\ IF ok
       THEN callerPc' = "auth_send" /\ UNCHANGED result
       ELSE callerPc' = "idle" /\ result' = "WsError"
    /\ UNCHANGED << svc, roomid, key, host_list, initRoomid, authReply, wsConnects,
                    authSent, pipeVars, bcVars >>
    /\ UNCHANGED auxVars
    /\ UNCHANGED << codecVars, connectorVars >>

\* tx.send(Binary(authpack_bin)).await.unwrap()
start_auth_send(ok) ==
    /\ callerPc = "auth_send"
    /\ IF ok
       THEN /\ callerPc' = "auth_reply"
            /\ authSent' = authSent + 1
            /\ wsFirst' = IF wsFirst = -1 THEN OpAuth ELSE wsFirst
            /\ UNCHANGED << svc, result >>
       ELSE /\ callerPc' = "idle"
            /\ svc' = "Panicked"
            /\ result' = "ConnectPanic"
            /\ UNCHANGED << authSent, wsFirst >>
    /\ UNCHANGED << roomid, key, host_list, initRoomid, authReply, wsConnects,
                    hbPc, sendPc, sendCur, recvPc, recvCur, procPc, procEvents,
                    outQ, inQ, wsClosing, nRead, bcVars >>
    /\ UNCHANGED auxVars
    /\ UNCHANGED << codecVars, connectorVars >>

\* rx.next().await, the spawns, and the rest of connect
start_auth_reply(reply) ==
    /\ callerPc = "auth_reply"
    /\ callerPc' = "idle"
    /\ authReply' = reply.kind
    /\ IF reply.kind = "Binary" /\ ~ from_buffer_panics(reply.bin)
       THEN /\ svc' = "Connected"
            /\ result' = "ConnectOk"
            /\ hbPc' = "send"
            /\ sendPc' = "recv"
            /\ recvPc' = "run"
            /\ procPc' = "run"
            /\ spawned' = spawned + 4
       ELSE \* from_buffer unwinds, or start returns Err(()) into unwrap()
            /\ svc' = "Panicked"
            /\ result' = "ConnectPanic"
            /\ UNCHANGED << hbPc, sendPc, recvPc, procPc, spawned >>
    /\ UNCHANGED << roomid, key, host_list, initRoomid, wsConnects, authSent,
                    wsFirst, sendCur, recvCur, procEvents, outQ, inQ, wsClosing,
                    nRead, bcVars >>
    /\ UNCHANGED << lastWrite, arrived, taken >>
    /\ UNCHANGED << codecVars, connectorVars >>

(***************************************************************************)
(* The mpsc queues of RoomConnection::start.                               *)
(***************************************************************************)
\* a channel that never runs out of permits
mpsc_unbounded(queue) == TRUE

\* a permit is free: mpsc::channel::<RawPacket>(channel_buffer_size)
mpsc_has_capacity(queue) == Len(queue) < channel_buffer_size

\* hb_sender lives as long as the heartbeat task
outbound_senders == IF hbPc \in { "send", "blocked", "sleep" } THEN 1 ELSE 0
outbound_receiver_alive == sendPc \in { "recv", "write" }
inbound_senders == IF recvPc \in { "run", "blocked" } THEN 1 ELSE 0
inbound_receiver_alive == procPc \in { "run", "publish" }

(***************************************************************************)
(* hb: loop { hb_sender.send(heartbeat()).await.unwrap(); sleep(30 s) }    *)
(***************************************************************************)
\* a heartbeat whose send does not wait: a full queue is an error too
hb_try_send ==
    /\ hbPc = "send"
    /\ IF outbound_receiver_alive /\ mpsc_has_capacity(outQ)
       THEN hbPc' = "sleep" /\ outQ' = Append(outQ, heartbeat)
       ELSE hbPc' = "panicked" /\ UNCHANGED outQ
    /\ UNCHANGED << lifeVars, wsFirst, sendPc, sendCur, recvPc, recvCur, procPc,
                    procEvents, inQ, wsClosing, nRead, bcVars >>
    /\ UNCHANGED auxVars
    /\ UNCHANGED << codecVars, connectorVars >>

hb_send ==
    /\ hbPc = "send"
    /\ IF ~ outbound_receiver_alive
       THEN hbPc' = "panicked" /\ UNCHANGED outQ
       ELSE IF mpsc_has_capacity(outQ)
       THEN hbPc' = "sleep" /\ outQ' = Append(outQ, heartbeat)
       ELSE hbPc' = "blocked" /\ UNCHANGED outQ
    /\ UNCHANGED << lifeVars, wsFirst, sendPc, sendCur, recvPc, recvCur, procPc,
                    procEvents, inQ, wsClosing, nRead, bcVars >>
    /\ UNCHANGED auxVars
    /\ UNCHANGED << codecVars, connectorVars >>

\* the pending send gets its permit
hb_send_resume ==
    /\ hbPc = "blocked"
    /\ mpsc_has_capacity(outQ) \/ ~ outbound_receiver_alive
    /\ IF ~ outbound_receiver_alive
       THEN hbPc' = "panicked" /\ UNCHANGED outQ
       ELSE hbPc' = "sleep" /\ outQ' = Append(outQ, heartbeat)
    /\ UNCHANGED << lifeVars, wsFirst, sendPc, sendCur, recvPc, recvCur, procPc,
                    procEvents, inQ, wsClosing, nRead, bcVars >>
    /\ UNCHANGED auxVars
    /\ UNCHANGED << codecVars, connectorVars >>

hb_sleep ==
    /\ hbPc = "sleep"
    /\ hbPc' = "send"
    /\ UNCHANGED << lifeVars, wsFirst, sendPc, sendCur, recvPc, recvCur, procPc,
                    procEvents, outQ, inQ, wsClosing, nRead, bcVars >>
    /\ UNCHANGED auxVars
    /\ UNCHANGED << codecVars, connectorVars >>

(***************************************************************************)
(* send: while let Some(p) = pack_outbound_rx.recv().await { write }       *)
(***************************************************************************)
send_recv ==
    /\ sendPc = "recv"
    /\ outQ # << >> \/ outbound_senders = 0
    /\ IF outQ # << >>
       THEN sendPc' = "write" /\ sendCur' = Head(outQ) /\ outQ' = Tail(outQ)
       ELSE sendPc' = "done" /\ UNCHANGED << sendCur, outQ >>
    /\ UNCHANGED << lifeVars, wsFirst, hbPc, recvPc, recvCur, procPc, procEvents,
                    inQ, wsClosing, nRead, bcVars >>
    /\ UNCHANGED auxVars
    /\ UNCHANGED << codecVars, connectorVars >>

\* a write whose failure ends the loop
send_write_or_stop(ok) ==
    /\ sendPc = "write"
    /\ sendPc' = IF ok THEN "recv" ELSE "done"
    /\ sendCur' = NoPacket
    /\ lastWrite' = IF ok THEN "Ok" ELSE "Err"
    /\ wsFirst' = IF ok /\ wsFirst = -1
                  THEN from_buffer(ser(sendCur)).head.opcode ELSE wsFirst
    /\ UNCHANGED << lifeVars, hbPc, recvPc, recvCur, procPc, procEvents, outQ, inQ,
                    wsClosing, nRead, bcVars >>
    /\ UNCHANGED << spawned, arrived, taken >>
    /\ UNCHANGED << codecVars, connectorVars >>

\* tx.send(Binary(p.ser())).await.unwrap_or_default()
send_write(ok) ==
    /\ sendPc = "write"
    /\ sendPc' = "recv"
    /\ sendCur' = NoPacket
    /\ lastWrite' = IF ok THEN "Ok" ELSE "Err"
    /\ wsFirst' = IF ok /\ wsFirst = -1
                  THEN from_buffer(ser(sendCur)).head.opcode ELSE wsFirst
    /\ UNCHANGED << lifeVars, hbPc, recvPc, recvCur, procPc, procEvents, outQ, inQ,
                    wsClosing, nRead, bcVars >>
    /\ UNCHANGED << spawned, arrived, taken >>
    /\ UNCHANGED << codecVars, connectorVars >>

(***************************************************************************)
(* recv: while let Some(Ok(msg)) = rx.next().await { .. }                  *)
(***************************************************************************)
BundlePacket(ps) ==
    LET body == brotli_compress(Concat(SerEach(ps)))
    IN  RawPacket(16 + Len(body), 16, 3, 5, 1, body)

\* what the peer sends: a counter, a structured value, a bundle of two
\* counters, a legacy frame, a counter cut short, a message cut short
PeerBinaries ==
    { ser(PopularityPacket(42)),
      ser(RawPacket(17, 16, 0, 5, 1, << 49 >>)),
      ser(BundlePacket(<< PopularityPacket(42), PopularityPacket(7) >>)),
      ser(RawPacket(17, 16, 2, 5, 1, << 49 >>)),
      ser(RawPacket(19, 16, 1, 5, 1, << 0, 0, 49 >>)),
      << 0, 0, 0, 16 >> }

\* a stream that goes on delivering messages after the peer's close message
StreamItemsAfterClose ==
    { [ kind |-> k, bin |-> << >> ] : k \in { "Close", "Text", "Err", "End" } }
      \cup { [ kind |-> "Binary", bin |-> b ] : b \in PeerBinaries }

\* the stream after the peer's close message yields no further message
StreamItems ==
    IF wsClosing
    THEN { [ kind |-> k, bin |-> << >> ] : k \in { "Err", "End" } }
    ELSE { [ kind |-> k, bin |-> << >> ] : k \in { "Close", "Text", "Err", "End" } }
           \cup { [ kind |-> "Binary", bin |-> b ] : b \in PeerBinaries }

\* pack_inbound_tx.send(packet).await.unwrap_or_default(), up to its await
inbound_send(packet) ==
    IF ~ inbound_receiver_alive
    THEN UNCHANGED << recvPc, recvCur, inQ >>
    ELSE IF mpsc_has_capacity(inQ)
    THEN inQ' = Append(inQ, packet) /\ UNCHANGED << recvPc, recvCur >>
    ELSE recvPc' = "blocked" /\ recvCur' = packet /\ UNCHANGED inQ

recv_next(msg) ==
    /\ recvPc = "run"
    /\ msg \in StreamItems
    /\ CASE msg.kind = "Binary" ->
              /\ nRead < MaxMsgs
              /\ nRead' = nRead + 1
              /\ UNCHANGED wsClosing
              /\ IF from_buffer_panics(msg.bin)
                 THEN recvPc' = "panicked" /\ UNCHANGED << recvCur, inQ, arrived >>
                 ELSE /\ inbound_send(from_buffer(msg.bin))
                      /\ arrived' = Append(arrived, from_buffer(msg.bin))
         [] msg.kind = "Close" ->
              /\ wsClosing' = TRUE
              /\ UNCHANGED << nRead, recvPc, recvCur, inQ, arrived >>
         [] msg.kind = "Text" ->
              UNCHANGED << wsClosing, nRead, recvPc, recvCur, inQ, arrived >>
         [] OTHER ->
              /\ recvPc' = "done"
              /\ UNCHANGED << wsClosing, nRead, recvCur, inQ, arrived >>
    /\ UNCHANGED << lifeVars, wsFirst, hbPc, sendPc, sendCur, procPc, procEvents,
                    outQ, bcVars >>
    /\ UNCHANGED << spawned, lastWrite, taken >>
    /\ UNCHANGED << codecVars, connectorVars >>

\* the pending send gets its permit, or finds the receiver gone
recv_send_resume ==
    /\ recvPc = "blocked"
    /\ mpsc_has_capacity(inQ) \/ ~ inbound_receiver_alive
    /\ recvPc' = "run"
    /\ recvCur' = NoPacket
    /\ inQ' = IF inbound_receiver_alive THEN Append(inQ, recvCur) ELSE inQ
    /\ UNCHANGED << lifeVars, wsFirst, hbPc, sendPc, sendCur, procPc, procEvents,
                    outQ, wsClosing, nRead, bcVars >>
    /\ UNCHANGED auxVars
    /\ UNCHANGED << codecVars, connectorVars >>

(***************************************************************************)
(* The broadcast channel of connect, as tokio keeps it: a ring of          *)
(* BacklogCap slots, each with the position of the value it holds, a tail  *)
(* position, and one cursor per receiver.                                  *)
(***************************************************************************)
EmptyRing ==
    [ i \in 0 .. BacklogCap - 1 |-> [ pos |-> i - BacklogCap, val |-> NoEvent, seq |-> 0 ] ]

\* a send that always writes the first slot
broadcast_send_slot0(bc, rx, evt, seq) ==
    IF rx = 0 THEN bc
    ELSE [ buf |-> [ bc.buf EXCEPT ![0] = [ pos |-> bc.tail, val |-> evt, seq |-> seq ] ],
           tail |-> bc.tail + 1 ]

\* a send that gives up when every slot of the ring is in use
broadcast_send_until_full(bc, rx, evt, seq) ==
    IF rx = 0 \/ bc.tail >= BacklogCap THEN bc
    ELSE [ buf |-> [ bc.buf EXCEPT ![bc.tail % BacklogCap] =
                                       [ pos |-> bc.tail, val |-> evt, seq |-> seq ] ],
           tail |-> bc.tail + 1 ]

\* Sender::send: an error and no store when there is no receiver.  seq is
\* the place of evt among the events the dispatcher sent, kept for the record.
broadcast_send(bc, rx, evt, seq) ==
    IF rx = 0 THEN bc
    ELSE [ buf |-> [ bc.buf EXCEPT ![bc.tail % BacklogCap] =
                                       [ pos |-> bc.tail, val |-> evt, seq |-> seq ] ],
           tail |-> bc.tail + 1 ]

\* a receiver that starts at the oldest position
broadcast_subscribe_oldest(tail) ==
    [ next |-> IF tail > BacklogCap THEN tail - BacklogCap ELSE 0,
      got |-> << >>, from |-> Len(published), lagged |-> FALSE, closed |-> FALSE ]

\* Sender::subscribe: the new receiver starts at the tail.  got, from,
\* lagged and closed record what the receiver's owner has seen.
broadcast_subscribe(tail) ==
    [ next |-> tail, got |-> << >>, from |-> Len(published),
      lagged |-> FALSE, closed |-> FALSE ]

\* broadcastor and process_packet_broadcastor
broadcast_senders ==
    (IF svc = "Connected" THEN 1 ELSE 0)
      + (IF procPc \in { "run", "publish" } THEN 1 ELSE 0)

\* Receiver::recv on receiver r: "Value", "Lagged", "Closed" or "Empty"
broadcast_recv_kind(r) ==
    LET slot == bcBuf[r.next % BacklogCap]
    IN  IF slot.pos = r.next THEN "Value"
        ELSE IF slot.pos + BacklogCap = r.next
        THEN IF broadcast_senders = 0 THEN "Closed" ELSE "Empty"
        ELSE "Lagged"

(***************************************************************************)
(* crate::cmd is not among the sources: Cmd::deser and Cmd::as_event are   *)
(* the opaque decoder of the specification, which yields an event for some *)
(* structured values and none for others.                                  *)
(***************************************************************************)
cmd_as_event(json_val) ==
    IF json_val = << 49 >> THEN << [ type |-> "Cmd", json |-> json_val ] >> ELSE << >>

PopularityUpdate(popularity) == [ type |-> "PopularityUpdate", popularity |-> popularity ]

\* a dispatcher that sends an event for a Deflate item too
events_of_data_with_deflate(data) ==
    CASE data.type = "Json" -> cmd_as_event(data.json)
      [] data.type = "Popularity" -> << PopularityUpdate(data.popularity) >>
      [] OTHER -> << [ type |-> "Deflate", s |-> data.s ] >>

\* the events the dispatcher sends for one Data item
events_of_data(data) ==
    CASE data.type = "Json" -> cmd_as_event(data.json)
      [] data.type = "Popularity" -> << PopularityUpdate(data.popularity) >>
      [] OTHER -> << >>

RECURSIVE events_of(_)
events_of(datas) ==
    IF datas = << >> THEN << >>
    ELSE events_of_data(Head(datas)) \o events_of(Tail(datas))

(***************************************************************************)
(* process_packet: while let Some(packet) = conn.pack_rx.recv().await      *)
(***************************************************************************)
process_recv ==
    /\ procPc = "run"
    /\ inQ # << >> \/ inbound_senders = 0
    /\ IF inQ = << >>
       THEN procPc' = "done" /\ UNCHANGED << inQ, procEvents, taken >>
       ELSE IF get_datas_panics(Head(inQ))
       THEN procPc' = "panicked" /\ inQ' = << >> /\ UNCHANGED << procEvents, taken >>
       ELSE LET events == events_of(get_datas(Head(inQ)))
            IN  /\ inQ' = Tail(inQ)
                /\ taken' = taken + 1
                /\ procEvents' = events
                /\ procPc' = IF events = << >> THEN "run" ELSE "publish"
    /\ UNCHANGED << lifeVars, wsFirst, hbPc, sendPc, sendCur, recvPc, recvCur,
                    outQ, wsClosing, nRead, bcVars >>
    /\ UNCHANGED << spawned, lastWrite, arrived >>
    /\ UNCHANGED << codecVars, connectorVars >>

\* a dispatcher that sends the events of a frame newest first
process_publish_newest_first ==
    /\ procPc = "publish"
    /\ LET evt == procEvents[Len(procEvents)]
           bc == broadcast_send([ buf |-> bcBuf, tail |-> bcTail ], Len(subs),
                                evt, Len(published) + 1)
       IN  /\ bcBuf' = bc.buf /\ bcTail' = bc.tail
           /\ published' = Append(published, evt)
    /\ procEvents' = SubSeq(procEvents, 1, Len(procEvents) - 1)
    /\ procPc' = IF Len(procEvents) = 1 THEN "run" ELSE "publish"
    /\ UNCHANGED << lifeVars, wsFirst, hbPc, sendPc, sendCur, recvPc, recvCur,
                    outQ, inQ, wsClosing, nRead, subs >>
    /\ UNCHANGED auxVars
    /\ UNCHANGED << codecVars, connectorVars >>

\* process_packet_broadcastor.send(evt).unwrap_or_default()
process_publish ==
    /\ procPc = "publish"
    /\ LET bc == broadcast_send([ buf |-> bcBuf, tail |-> bcTail ], Len(subs),
                                Head(procEvents), Len(published) + 1)
       IN  bcBuf' = bc.buf /\ bcTail' = bc.tail
    /\ published' = Append(published, Head(procEvents))
    /\ procEvents' = Tail(procEvents)
    /\ procPc' = IF Tail(procEvents) = << >> THEN "run" ELSE "publish"
    /\ UNCHANGED << lifeVars, wsFirst, hbPc, sendPc, sendCur, recvPc, recvCur,
                    outQ, inQ, wsClosing, nRead, subs >>
    /\ UNCHANGED auxVars
    /\ UNCHANGED << codecVars, connectorVars >>

(***************************************************************************)
(* RoomService<Connected>: subscribe, the receivers, and the drop.         *)
(***************************************************************************)
subscribe ==
    /\ svc = "Connected"
    /\ Len(subs) < Cardinality(Receivers)
    /\ subs' = Append(subs, broadcast_subscribe(bcTail))
    /\ UNCHANGED << lifeVars, pipeVars, bcBuf, bcTail, published >>
    /\ UNCHANGED auxVars
    /\ UNCHANGED << codecVars, connectorVars >>

\* receiver i polls recv()
subscriber_recv(i) ==
    /\ i \in 1 .. Len(subs)
    /\ LET r == subs[i]
           kind == broadcast_recv_kind(r)
       IN  /\ kind # "Empty"
           /\ kind = "Closed" => ~ r.closed
           /\ subs' = [ subs EXCEPT ![i] =
                CASE kind = "Value" ->
                       [ r EXCEPT !.next = r.next + 1,
                                  !.got = Append(r.got,
                                      [ val |-> bcBuf[r.next % BacklogCap].val,
                                        seq |-> bcBuf[r.next % BacklogCap].seq ]) ]
                  [] kind = "Lagged" ->
                       [ r EXCEPT !.next = bcTail - BacklogCap, !.lagged = TRUE ]
                  [] OTHER -> [ r EXCEPT !.closed = TRUE ] ]
    /\ UNCHANGED << lifeVars, pipeVars, bcBuf, bcTail, published >>
    /\ UNCHANGED auxVars
    /\ UNCHANGED << codecVars, connectorVars >>

\* the owner drops RoomService<Connected>: broadcastor is dropped and the
\* JoinHandle is dropped, which detaches the dispatcher task
drop_connected ==
    /\ svc = "Connected"
    /\ svc' = "Dropped"
    /\ UNCHANGED << roomid, key, host_list, callerPc, result, initRoomid,
                    authReply, wsConnects, authSent, pipeVars, bcVars >>
    /\ UNCHANGED auxVars
    /\ UNCHANGED << codecVars, connectorVars >>

(***************************************************************************)
(* connector.rs: Connector, the room service without the typestate.  The   *)
(* hosts are numbered; Connection::connect belongs to crate::connection    *)
(* and is an input here: it hands back a connection or an error.           *)
(***************************************************************************)
Uids == { 7, 8 }

\* getDanmuInfo may also answer without its data field
ConnectorDanmuOutcomes ==
    DanmuInfoOutcomes \cup { [ kind |-> "NoData", token |-> "", host_list |-> << >> ] }

\* Connector::init: `?` turns every failure into an InitError
connector_init(info, uid, danmu) ==
    /\ connector = NoConnector
    /\ IF info.kind \in HttpFailures \cup { "Unparsable" }
       THEN connectorResult' = [ op |-> "init", tag |-> "HttpError" ] /\ UNCHANGED connector
       ELSE IF info.kind = "NoData"
       THEN connectorResult' = [ op |-> "init", tag |-> "ParseError" ] /\ UNCHANGED connector
       ELSE IF danmu.kind \in HttpFailures \cup { "Unparsable" }
       THEN connectorResult' = [ op |-> "init", tag |-> "HttpError" ] /\ UNCHANGED connector
       ELSE IF danmu.kind = "NoData"
       THEN connectorResult' = [ op |-> "init", tag |-> "ParseError" ] /\ UNCHANGED connector
       ELSE /\ connectorResult' = [ op |-> "init", tag |-> "Ok" ]
            /\ connector' = [ state |-> "Connector", roomid |-> info.room_id,
                              uid |-> uid, token |-> danmu.token, host_index |-> 0,
                              host_list |-> danmu.host_list ]
    /\ UNCHANGED << connectedHost, lifeVars, pipeVars, bcVars, auxVars, codecVars >>

\* a selection that takes any index
use_host_unchecked(index) ==
    /\ connector.state = "Connector"
    /\ connector' = [ connector EXCEPT !.host_index = index ]
    /\ connectorResult' = [ op |-> "use_host", index |-> index, ok |-> TRUE, val |-> index ]
    /\ UNCHANGED << connectedHost, lifeVars, pipeVars, bcVars, auxVars, codecVars >>

\* Connector::use_host: Ok(host) or Err(host_list.len())
use_host(index) ==
    /\ connector.state = "Connector"
    /\ IF Len(connector.host_list) > index
       THEN /\ connector' = [ connector EXCEPT !.host_index = index ]
            /\ connectorResult' = [ op |-> "use_host", index |-> index, ok |-> TRUE,
                                    val |-> connector.host_list[index + 1] ]
       ELSE /\ UNCHANGED connector
            /\ connectorResult' = [ op |-> "use_host", index |-> index, ok |-> FALSE,
                                    val |-> Len(connector.host_list) ]
    /\ UNCHANGED << connectedHost, lifeVars, pipeVars, bcVars, auxVars, codecVars >>

\* Connector::connect(&self)
connector_connect(ok) ==
    /\ connector.state = "Connector"
    /\ IF host_list_is_empty(connector.host_list)
       THEN /\ connectorResult' = [ op |-> "connect", tag |-> "HostListIsEmpty" ]
            /\ UNCHANGED connectedHost
       ELSE IF connector.host_index >= Len(connector.host_list)
       THEN \* self.host_list[self.host_index] is out of bounds
            /\ connectorResult' = [ op |-> "connect", tag |-> "Panic" ]
            /\ UNCHANGED connectedHost
       ELSE /\ connectedHost' = connector.host_list[connector.host_index + 1]
            /\ connectorResult' =
                   [ op |-> "connect", tag |-> IF ok THEN "Ok" ELSE "HandshakeError" ]
    /\ UNCHANGED << connector, lifeVars, pipeVars, bcVars, auxVars, codecVars >>

(***************************************************************************)
(* The room service: RoomService::new(roomid), then the operations.        *)
(***************************************************************************)
RoomIdle ==
    /\ svc = "Uninited"
    /\ key = "" /\ host_list = << >>
    /\ callerPc = "idle" /\ result = "None" /\ authReply = "None"
    /\ wsConnects = 0 /\ authSent = 0 /\ wsFirst = -1
    /\ hbPc = "idle" /\ sendPc = "idle" /\ recvPc = "idle" /\ procPc = "idle"
    /\ sendCur = NoPacket /\ recvCur = NoPacket /\ procEvents = << >>
    /\ outQ = << >> /\ inQ = << >>
    /\ wsClosing = FALSE /\ nRead = 0
    /\ bcBuf = EmptyRing /\ bcTail = 0 /\ subs = << >> /\ published = << >>
    /\ spawned = 0 /\ lastWrite = "None" /\ arrived = << >> /\ taken = 0
    /\ connector = NoConnector /\ connectorResult = NoResult /\ connectedHost = 0

Init ==
    /\ roomid \in RoomIds
    /\ initRoomid = roomid
    /\ RoomIdle
    /\ cOp = 0 /\ cProto = 0 /\ cBody = << >> /\ CodecIdle

\* the state connect leaves behind when it returns Ok: the handshake is
\* done and the four tasks are spawned
JustConnected ==
    /\ svc = "Connected"
    /\ roomid = 1 /\ initRoomid = 1
    /\ key = "token" /\ host_list = << 1 >>
    /\ callerPc = "idle" /\ result = "ConnectOk" /\ authReply = "Binary"
    /\ wsConnects = 1 /\ authSent = 1 /\ wsFirst = OpAuth
    /\ hbPc = "send" /\ sendPc = "recv" /\ recvPc = "run" /\ procPc = "run"
    /\ sendCur = NoPacket /\ recvCur = NoPacket /\ procEvents = << >>
    /\ outQ = << >> /\ inQ = << >>
    /\ wsClosing = FALSE /\ nRead = 0
    /\ bcBuf = EmptyRing /\ bcTail = 0 /\ subs = << >> /\ published = << >>
    /\ spawned = 4 /\ lastWrite = "None" /\ arrived = << >> /\ taken = 0
    /\ connector = NoConnector /\ connectorResult = NoResult /\ connectedHost = 0

\* the caller: init, connect with the handshake, and the drop
LifeNext ==
    \/ \E info \in RoomPlayInfoOutcomes, danmu \in DanmuInfoOutcomes : init(info, danmu)
    \/ connect
    \/ \E ok \in BOOLEAN : connect_async(ok)
    \/ \E ok \in BOOLEAN : start_auth_send(ok)
    \/ \E reply \in AuthReplies : start_auth_reply(reply)
    \/ drop_connected

\* the heartbeat task and the outbound task
OutboundNext ==
    \/ hb_send
    \/ hb_send_resume
    \/ hb_sleep
    \/ send_recv
    \/ \E ok \in BOOLEAN : send_write(ok)

\* the inbound task and the dispatcher task
InboundNext ==
    \/ \E msg \in StreamItems : recv_next(msg)
    \/ recv_send_resume
    \/ process_recv
    \/ process_publish

\* the owners of the receivers
SubscriberNext ==
    \/ subscribe
    \/ \E i \in Receivers : subscriber_recv(i)

\* the whole program
Next == LifeNext \/ OutboundNext \/ InboundNext \/ SubscriberNext

Program == Init /\ [][Next]_vars

(***************************************************************************)
(* The heartbeat and outbound tasks share no variable with the inbound and *)
(* dispatcher tasks, and the receivers share none with the outbound side,  *)
(* so the program is checked in three parts, each a projection of Program: *)
(*   Spec         the caller with the heartbeat and outbound tasks;        *)
(*   QueueSpec    the four tasks of a live connection around their two     *)
(*                queues;                                                  *)
(*   DispatchSpec the inbound and dispatcher tasks with the receivers and  *)
(*                the drop of the owner.                                   *)
(* QueueSpec and DispatchSpec start where connect returns Ok.  CodecSpec   *)
(* and ConnectorSpec are packet.rs and the Connector on their own.         *)
(***************************************************************************)
CallerNext ==
    \/ \E info \in RoomPlayInfoOutcomes, danmu \in DanmuInfoOutcomes : init(info, danmu)
    \/ connect
    \/ \E ok \in BOOLEAN : connect_async(ok)
    \/ \E ok \in BOOLEAN : start_auth_send(ok)
    \/ \E reply \in AuthReplies : start_auth_reply(reply)
    \/ drop_connected
    \/ hb_send
    \/ hb_send_resume
    \/ hb_sleep
    \/ send_recv
    \/ \E ok \in BOOLEAN : send_write(ok)

Spec == Init /\ [][CallerNext]_vars

ConnectedInit == JustConnected /\ cOp = 0 /\ cProto = 0 /\ cBody = << >> /\ CodecIdle

QueueNext ==
    \/ hb_send
    \/ hb_send_resume
    \/ hb_sleep
    \/ send_recv
    \/ \E ok \in BOOLEAN : send_write(ok)
    \/ \E msg \in StreamItems : recv_next(msg)
    \/ recv_send_resume
    \/ process_recv
    \/ process_publish

QueueSpec == ConnectedInit /\ [][QueueNext]_vars

(***************************************************************************)
(* The runtime polls every spawned task that can make progress, the 30 s   *)
(* timer of the heartbeat fires, and a write to the stream completes with  *)
(* Ok or Err: each step of the heartbeat and outbound tasks is taken if it *)
(* stays possible.  Nothing is assumed of the peer, the inbound loop or    *)
(* the dispatcher.                                                         *)
(***************************************************************************)
OutboundFairness ==
    /\ WF_vars(hb_send)
    /\ WF_vars(hb_send_resume)
    /\ WF_vars(hb_sleep)
    /\ WF_vars(send_recv)
    /\ WF_vars(\E ok \in BOOLEAN : send_write(ok))

FairQueueSpec == ConnectedInit /\ [][QueueNext]_vars /\ OutboundFairness

DispatchNext ==
    \/ \E msg \in StreamItems : recv_next(msg)
    \/ recv_send_resume
    \/ process_recv
    \/ process_publish
    \/ subscribe
    \/ \E i \in Receivers : subscriber_recv(i)
    \/ drop_connected

DispatchSpec == ConnectedInit /\ [][DispatchNext]_vars

CodecStart == CodecInit /\ roomid = 1 /\ initRoomid = 1 /\ RoomIdle

\* the Connector on its own
ConnectorStart ==
    /\ roomid = 1 /\ initRoomid = 1 /\ RoomIdle
    /\ cOp = 0 /\ cProto = 0 /\ cBody = << >> /\ CodecIdle

ConnectorNext ==
    \/ \E info \in RoomPlayInfoOutcomes, uid \in Uids, danmu \in ConnectorDanmuOutcomes :
           connector_init(info, uid, danmu)
    \/ \E index \in 0 .. MaxHosts : use_host(index)
    \/ \E ok \in BOOLEAN : connector_connect(ok)

ConnectorSpec == ConnectorStart /\ [][ConnectorNext]_vars

CodecSpec == CodecStart /\ [][CodecNext]_vars

(***************************************************************************)
(* Properties of the codec, checked under CodecSpec.                       *)
(***************************************************************************)
\* C8: for every operation code and body, from_buffer(ser(build(op, body)))
\* has the five header fields and the body of build(op, body).
C8_RoundTrip ==
    cStage = "build_ser_from_buffer" =>
        /\ cParsed.head.size = cPacket.head.size
        /\ cParsed.head.header_size = cPacket.head.header_size
        /\ cParsed.head.proto_code = cPacket.head.proto_code
        /\ cParsed.head.opcode = cPacket.head.opcode
        /\ cParsed.head.sequence = cPacket.head.sequence
        /\ cParsed.data = cPacket.data
        /\ cParsed.head.opcode = cOp
        /\ cParsed.data = cBody

\* a frame with a body and an operation code other than its sequence number
\* went through ser and from_buffer
C8_Witness ==
    /\ cStage = "build_ser_from_buffer"
    /\ cOp = OpAuth
    /\ Len(cBody) = MaxBodyLen
    /\ cParsed.data = cBody

HeartbeatBytes ==
    << 0, 0, 0, 31,  0, 16,  0, 1,  0, 0, 0, 2,  0, 0, 0, 1,
       91, 111, 98, 106, 101, 99, 116, 32, 79, 98, 106, 101, 99, 116, 93 >>

\* C9: heartbeat() is one fixed frame and serializes to exactly 31 bytes:
\* the header (31, 16, 1, 2, 1) in big-endian field order, then the 15
\* ASCII bytes of "[object Object]".
C9_HeartbeatLiteral ==
    /\ cStage \in { "heartbeat", "heartbeat_ser", "heartbeat_ser_from_buffer" } =>
           /\ cPacket.head = [ size |-> 31, header_size |-> 16, proto_code |-> 1,
                               opcode |-> 2, sequence |-> 1 ]
           /\ Len(cPacket.data) = 15
    /\ cStage \in { "heartbeat_ser", "heartbeat_ser_from_buffer" } =>
           /\ Len(cBytes) = 31
           /\ cBytes = HeartbeatBytes

\* the heartbeat frame has been serialized
C9_Witness == cStage = "heartbeat_ser" /\ Len(cBytes) = 31

\* the body drawn is malformed for the proto code drawn
MalformedBody ==
    \/ cProto = 0 /\ ~ serde_json_from_slice_ok(cBody)
    \/ cProto = 1 /\ Len(cBody) < 4
    \/ cProto = 3 /\ ~ brotli_read_to_end_ok(cBody)
    \/ cProto = 3 /\ brotli_read_to_end_ok(cBody)
                  /\ from_buffers_panics(brotli_read_to_end(cBody))

\* C10: get_datas never crashes on a malformed body: for every proto code
\* and every truncated or garbage body it returns an empty result.
C10_DecodeNeverCrashes ==
    cStage = "get_datas" =>
        /\ ~ cDatas.panic
        /\ MalformedBody => cDatas.datas = << >>

\* the items get_datas returns for each frame of ps, one frame after another
DecodeResults(ps) == Concat([ i \in 1 .. Len(ps) |-> get_datas(ps[i]) ])

TwoStructured ==
    << RawPacket(17, 16, 0, 5, 1, << 49 >>), RawPacket(17, 16, 0, 5, 1, << 50 >>) >>

\* C11: get_datas on a proto_code 3 frame whose decompressed body is the
\* concatenation of n complete frames (n = 0 included), each of which
\* get_datas decodes, returns the items of those frames concatenated in frame
\* order, a proto_code 3 inner frame contributing the items of its own inner
\* frames; two inner proto_code 0 frames give exactly their two Json items
\* in order.
C11_BundleDecodesInOrder ==
    (cStage = "get_datas" /\ cProto = 3) =>
        /\ \A ps \in PacketSeqs :
              ( /\ cBody = brotli_compress(Concat(SerEach(ps)))
                /\ \A i \in 1 .. Len(ps) : ~ get_datas_panics(ps[i]) ) =>
                  /\ ~ cDatas.panic
                  /\ cDatas.datas = DecodeResults(ps)
        /\ cBody = brotli_compress(Concat(SerEach(TwoStructured))) =>
              cDatas.datas = << Json(<< 49 >>), Json(<< 50 >>) >>
        /\ cBody = brotli_compress(ser(BundlePacket(<< PopularityPacket(9) >>))
                                     \o ser(PopularityPacket(42))) =>
              cDatas.datas = << Popularity(9), Popularity(42) >>

\* the same for the bundles of at least one frame
C11_NonEmptyBundleDecodesInOrder ==
    (cStage = "get_datas" /\ cProto = 3 /\ cBody # brotli_compress(<< >>)) =>
        C11_BundleDecodesInOrder
\* C17, as amended: built without the deflate feature, get_datas on a
\* proto_code 2 frame returns, for every body, exactly one Deflate item
\* holding the empty string, and the dispatcher sends no event for it.
C17_LegacyDecodesToPlaceholder ==
    (cStage = "get_datas" /\ cProto = 2) =>
        /\ ~ cDatas.panic
        /\ cDatas.datas = << Deflate(<< >>) >>
        /\ events_of(cDatas.datas) = << >>

\* a proto_code 2 frame with a body has been decoded
C17_Witness ==
    /\ cStage = "get_datas" /\ cProto = 2 /\ Len(cBody) = MaxBodyLen
    /\ cDatas.datas = << Deflate(<< >>) >>

\* C17: built without the deflate feature, get_datas on a proto_code 2
\* frame returns an empty output for every body, and no event is published
\* for such a frame.
C17_LegacyDecodesToNothing ==
    (cStage = "get_datas" /\ cProto = 2) =>
        /\ cDatas.datas = << >>
        /\ events_of(cDatas.datas) = << >>
\* total_size == header_size + len(body) with header_size == 16
WellSized(p) ==
    /\ p.head.header_size = 16
    /\ p.head.size = p.head.header_size + Len(p.data)

\* C20: every frame built by build or heartbeat, or produced by from_buffer
\* or from_buffers from any buffer, has size = header_size + Len(data) with
\* header_size = 16; from_buffer takes exactly size - 16 bytes as the body
\* also from a buffer longer or shorter than size.
C20_EveryFrameWellSized ==
    /\ cStage \notin { "input", "get_datas", "from_buffers" } => WellSized(cPacket)
    /\ cStage \in { "build_ser_from_buffer", "heartbeat_ser_from_buffer" } =>
           WellSized(cParsed)
    /\ cStage = "from_buffers" =>
           /\ WellSized(cParsed)
           /\ Len(cParsed.data) = cParsed.head.size - 16
           /\ \A i \in 1 .. Len(cFrames) : WellSized(cFrames[i])

\* the same without from_buffer on a buffer that is not exactly one frame
C20_BuiltAndBundledWellSized ==
    /\ cStage \notin { "input", "get_datas", "from_buffers" } => WellSized(cPacket)
    /\ cStage \in { "build_ser_from_buffer", "heartbeat_ser_from_buffer" } =>
           WellSized(cParsed)
    /\ cStage = "from_buffers" =>
           /\ Len(cBytes) = cParsed.head.size => WellSized(cParsed)
           /\ \A i \in 1 .. Len(cFrames) : WellSized(cFrames[i])

(***************************************************************************)
(* Properties of the room service, checked under Spec.                     *)
(***************************************************************************)
\* C1: every failure of init (HTTP error, bad status, unparsable body, in
\* either call) returns an error with the Uninited state unchanged: the
\* roomid of the returned state is the one init was called with, and init
\* does not crash.
C1_InitFailureKeepsState ==
    /\ result # "InitPanic"
    /\ result = "InitErr" => svc = "Uninited" /\ roomid = initRoomid

\* C2: when the transport opens but the handshake gets no binary reply
\* (closed, non-binary message, stream error), connect returns the unchanged
\* Disconnected state with a handshake error distinct from WsError, without
\* crashing, spawning a loop or reaching Connected.
C2_HandshakeFailureIsAnError ==
    authReply \in { "Text", "Close", "Err", "End" } =>
        /\ svc = "Disconnected"
        /\ result = "HandshakeError"
        /\ hbPc = "idle" /\ sendPc = "idle" /\ recvPc = "idle" /\ procPc = "idle"

\* C3: connect on an empty host list fails at once with HostListIsEmpty,
\* leaves the Disconnected state as it was and does no network I/O: no
\* transport connection is asked for and no Auth frame is written.
C3_EmptyHostListFailsWithoutIO ==
    /\ [](svc = "Disconnected" /\ host_list = << >> =>
              wsConnects = 0 /\ authSent = 0 /\ wsFirst = -1 /\ callerPc = "idle")
    /\ [][ (svc = "Disconnected" /\ host_list = << >>) =>
               /\ result' = "HostListIsEmpty"
               /\ svc' = "Disconnected"
               /\ UNCHANGED << roomid, key, host_list, callerPc, wsConnects,
                               authSent, wsFirst, hbPc, sendPc, recvPc, procPc >> ]_vars

\* connect has returned HostListIsEmpty
C3_Witness ==
    /\ svc = "Disconnected" /\ host_list = << >>
    /\ result = "HostListIsEmpty"
    /\ wsConnects = 0 /\ authSent = 0

\* C6: dropping the owning Connected state stops the heartbeat, outbound and
\* inbound loops and the dispatcher: after the drop no further heartbeat is
\* enqueued or written.
C6_DropStopsHeartbeat ==
    [][ svc = "Dropped" =>
            /\ Len(outQ') <= Len(outQ)
            /\ ~ (sendPc = "write" /\ sendPc' = "recv") ]_vars

\* the tasks of the connection that are running
ActiveTasks ==
    (IF hbPc \in { "send", "blocked", "sleep" } THEN 1 ELSE 0)
      + (IF sendPc \in { "recv", "write" } THEN 1 ELSE 0)
      + (IF recvPc \in { "run", "blocked" } THEN 1 ELSE 0)
      + (IF procPc \in { "run", "publish" } THEN 1 ELSE 0)

\* one of the four loops has been started
LoopStarted ==
    hbPc # "idle" \/ sendPc # "idle" \/ recvPc # "idle" \/ procPc # "idle"

\* C12: the handshake comes before any concurrency.  At most one Auth frame
\* is ever written, and once it is written it is the first message on the
\* transport; a loop is started only by the step that receives the binary
\* auth reply, so every started loop finds exactly one Auth frame written
\* and nothing written before it; tokio::spawn is called four times for a
\* connection and at most four tasks are active.
C12_HandshakeBeforeLoops ==
    /\ [](authSent <= 1)
    /\ [](authSent = 0 <=> wsFirst = -1)
    /\ [](authSent = 1 => wsFirst = OpAuth)
    /\ [](LoopStarted =>
            authSent = 1 /\ wsFirst = OpAuth /\ authReply = "Binary"
              /\ svc \in { "Connected", "Dropped" })
    /\ [](spawned \in { 0, 4 } /\ ActiveTasks <= spawned)
    /\ [][ (~ LoopStarted /\ LoopStarted') =>
               callerPc = "auth_reply" /\ authReply' = "Binary" /\ spawned' = 4 ]_vars
    /\ [][ authSent' # authSent =>
               callerPc = "auth_send" /\ wsFirst = -1 /\ wsFirst' = OpAuth ]_vars

\* the four tasks run after the handshake and the outbound loop has written
\* a heartbeat behind the Auth frame
C12_Witness ==
    /\ svc = "Connected" /\ authSent = 1 /\ authReply = "Binary"
    /\ wsFirst = OpAuth /\ lastWrite = "Ok"
    /\ spawned = 4 /\ ActiveTasks = 4

(***************************************************************************)
(* Properties of the two queues, checked under QueueSpec.                  *)
(***************************************************************************)
QueuesBounded ==
    Len(outQ) <= channel_buffer_size /\ Len(inQ) <= channel_buffer_size

\* C7, as amended: each queue holds at most its capacity in every reachable
\* state, and an enqueue onto a full queue blocks its producer instead of
\* growing the queue; the heartbeat loop too waits for room.
C7_FullQueueBlocksProducer ==
    /\ []QueuesBounded
    /\ [][ (hbPc = "send" /\ Len(outQ) = channel_buffer_size /\ hbPc' # hbPc) =>
               hbPc' = "blocked" /\ outQ' = outQ ]_vars
    /\ [][ (recvPc = "run" /\ Len(inQ) = channel_buffer_size /\ nRead' # nRead
              /\ recvPc' # "panicked" /\ procPc \in { "run", "publish" }) =>
               recvPc' = "blocked" /\ inQ' = inQ ]_vars

\* both producers wait on their full queues
C7_Witness ==
    /\ hbPc = "blocked" /\ Len(outQ) = channel_buffer_size
    /\ recvPc = "blocked" /\ Len(inQ) = channel_buffer_size

\* C7: each queue holds at most its capacity in every reachable state, and
\* an enqueue onto a full outbound queue fails fatally for the heartbeat
\* loop instead of growing the queue.
C7_FullQueueIsFatalForHeartbeat ==
    /\ []QueuesBounded
    /\ [][ (hbPc = "send" /\ Len(outQ) = channel_buffer_size /\ hbPc' # hbPc) =>
               hbPc' = "panicked" /\ outQ' = outQ ]_vars

\* C16: a failed write drops the frame and the outbound loop goes on: the
\* step that ends a write, failed or not, leaves the loop waiting for the
\* next frame with no frame in hand and nothing put back on the queue; every
\* write is of a frame just taken from the head of the queue, so no frame is
\* written twice; after a failed write the loop is alive, and it is ended
\* only with no sender of the outbound queue left.
C16_WriteFailureDropsFrame ==
    /\ [][ (sendPc = "write" /\ sendPc' # "write") =>
              /\ sendPc' = "recv" /\ sendCur' = NoPacket /\ outQ' = outQ
              /\ lastWrite' \in { "Ok", "Err" }
              /\ lastWrite' = "Err" => wsFirst' = wsFirst ]_vars
    /\ [][ (sendPc # "write" /\ sendPc' = "write") =>
              /\ sendPc = "recv" /\ outQ # << >>
              /\ sendCur' = Head(outQ) /\ outQ' = Tail(outQ) ]_vars
    /\ [][ sendPc = "write" => (sendPc' = "write" /\ sendCur' = sendCur)
                                 \/ sendPc' = "recv" ]_vars
    /\ [](lastWrite = "Err" => sendPc \in { "recv", "write" })
    /\ [](sendPc = "done" => outbound_senders = 0)

\* a write failed and the loop has the next frame in hand
C16_Witness ==
    /\ lastWrite = "Err"
    /\ sendPc = "write" /\ sendCur = heartbeat

(***************************************************************************)
(* Properties of the inbound loop and the dispatcher, checked under        *)
(* QueueSpec.                                                              *)
(***************************************************************************)
\* the inbound task is gone and with it the only sender of the inbound queue
InboundEnded == recvPc \in { "done", "panicked" }

\* the dispatcher task is gone
DispatcherTerminated == procPc \in { "done", "panicked" }

\* C13: the dispatcher does not terminate while the inbound queue is still
\* open, and when it has terminated it has processed every frame that was
\* enqueued.
C13_DispatcherEndsAfterInbound ==
    DispatcherTerminated => InboundEnded /\ inQ = << >> /\ taken = Len(arrived)

\* the same for the dispatcher leaving its loop at the end of the queue
C13_LoopExitAfterInbound ==
    procPc = "done" => InboundEnded /\ inQ = << >> /\ taken = Len(arrived)

EventsOfFrames(fs, k) == Concat([ i \in 1 .. k |-> events_of(get_datas(fs[i])) ])

\* the frame the inbound loop holds while it waits for room in the queue
PendingFrame == IF recvPc = "blocked" THEN << recvCur >> ELSE << >>

Drained(r) == broadcast_recv_kind(r) \in { "Empty", "Closed" }

\* C4: two subscribers of the same Connected state that stay within the
\* backlog limit both observe every event published after they subscribed
\* exactly once and in the order the dispatcher published them.
C4_FanOutInOrder ==
    \A i \in 1 .. Len(subs) :
        LET r == subs[i]
        IN  ~ r.lagged =>
              /\ r.from + Len(r.got) <= Len(published)
              /\ \A k \in 1 .. Len(r.got) :
                     /\ r.got[k].seq = r.from + k
                     /\ r.got[k].val = published[r.from + k]
              /\ Drained(r) => r.from + Len(r.got) = Len(published)

\* both subscribers have read the same two different events
C4_Witness ==
    /\ Len(subs) = 2
    /\ ~ subs[1].lagged /\ ~ subs[2].lagged
    /\ Len(subs[1].got) >= 2 /\ Len(subs[2].got) >= 2
    /\ subs[1].got[1].val # subs[1].got[2].val
    /\ subs[1].from = subs[2].from
    /\ subs[1].got[1] = subs[2].got[1] /\ subs[1].got[2] = subs[2].got[2]

\* C5: subscribe may be called repeatedly, and each receiver gets only
\* events published after its subscribe call, also when events were
\* published between connect returning and the first subscribe.
C5_OnlyEventsAfterSubscribe ==
    \A i \in 1 .. Len(subs) :
        \A k \in 1 .. Len(subs[i].got) :
            /\ subs[i].got[k].seq > subs[i].from
            /\ subs[i].got[k].seq <= Len(published)
            /\ subs[i].got[k].val = published[subs[i].got[k].seq]

\* events were published before the first subscribe and between the two
\* subscribes, and both receivers have read one published after theirs
C5_Witness ==
    /\ Len(subs) = 2
    /\ subs[1].from >= 1 /\ subs[2].from > subs[1].from
    /\ Len(subs[1].got) >= 1 /\ Len(subs[2].got) >= 1

\* the places in published of the events receiver r has read
SeqsRead(r) == { r.got[k].seq : k \in 1 .. Len(r.got) }

\* C15: publishing never blocks the dispatcher and never ends its loop,
\* with no subscriber or with subscribers that do not receive: in the
\* publish state the send can always be taken, and it appends the event and
\* goes on with the loop.  A receiver reads events in publish order without
\* repetition; one that fell behind loses only the oldest of its unread
\* events, so that once it has caught up it has read the last BacklogCap
\* events published since its subscribe; a receiver that did not fall behind
\* has lost nothing, whatever the other receivers did.
C15_PublishNeverBlocks ==
    /\ [](procPc = "publish" => ENABLED process_publish)
    /\ [][ published' # published =>
              /\ procPc = "publish" /\ procPc' \in { "run", "publish" }
              /\ published' = Append(published, Head(procEvents)) ]_vars
    /\ [](\A i \in 1 .. Len(subs) :
            LET r == subs[i]
            IN  /\ \A k \in 1 .. Len(r.got) - 1 : r.got[k].seq < r.got[k + 1].seq
                /\ \A k \in 1 .. Len(r.got) :
                       /\ r.got[k].seq \in r.from + 1 .. Len(published)
                       /\ r.got[k].val = published[r.got[k].seq]
                /\ Drained(r) =>
                       \A q \in r.from + 1 .. Len(published) :
                           (q > Len(published) - BacklogCap \/ ~ r.lagged)
                               => q \in SeqsRead(r))

\* one receiver fell behind, lost an event and caught up, the other read
\* every event, and events were published before anyone subscribed
C15_Witness ==
    /\ Len(subs) = 2
    /\ subs[1].from >= 1
    /\ \E i, j \in 1 .. 2 :
          /\ subs[i].lagged /\ Drained(subs[i])
          /\ Cardinality(SeqsRead(subs[i])) < Len(published) - subs[i].from
          /\ ~ subs[j].lagged /\ Drained(subs[j])
          /\ Len(subs[j].got) = Len(published) - subs[j].from
          /\ Len(subs[j].got) > BacklogCap

(***************************************************************************)
(* Properties of the Connector, checked under ConnectorSpec.               *)
(***************************************************************************)
\* the step is a call of op that returned or changed something
ConnectorCall(op) ==
    /\ connectorResult'.op = op
    /\ << connector, connectorResult, connectedHost >>'
          # << connector, connectorResult, connectedHost >>

\* C18: use_host with an index not below the length of the host list is
\* rejected, returns that length and leaves host_index alone, and with an
\* index below it selects that host; so on a non-empty host list host_index
\* is always within the list, and connect goes to host_list[host_index],
\* which is the first host as long as no use_host succeeded.
C18_HostSelectionInRange ==
    /\ [][ ConnectorCall("use_host") =>
              LET index == connectorResult'.index
              IN  IF index >= Len(connector.host_list)
                  THEN /\ ~ connectorResult'.ok
                       /\ connectorResult'.val = Len(connector.host_list)
                       /\ connector' = connector
                  ELSE /\ connectorResult'.ok
                       /\ connectorResult'.val = connector.host_list[index + 1]
                       /\ connector' = [ connector EXCEPT !.host_index = index ] ]_vars
    /\ [](connector.state = "Connector" =>
            /\ connector.host_index >= 0
            /\ connector.host_list # << >> =>
                   connector.host_index < Len(connector.host_list))
    /\ [][ (connector = NoConnector /\ connector' # NoConnector) =>
              connector'.host_index = 0 ]_vars
    /\ [][ (connector # NoConnector /\ connector' # connector) =>
              ConnectorCall("use_host") /\ connectorResult'.ok ]_vars
    /\ [][ ConnectorCall("connect") =>
              /\ connectorResult'.tag # "Panic"
              /\ connectorResult'.tag = "HostListIsEmpty" <=> connector.host_list = << >>
              /\ IF connector.host_list = << >>
                 THEN connectedHost' = connectedHost
                 ELSE connectedHost' = connector.host_list[connector.host_index + 1] ]_vars
    /\ [](connectedHost # 0 => connectedHost \in 1 .. MaxHosts)

\* the second host was selected and connected to, and a later selection
\* beyond the list was rejected with the length of the list
C18_Witness ==
    /\ connector.state = "Connector" /\ Len(connector.host_list) = 2
    /\ connector.host_index = 1
    /\ connectedHost = connector.host_list[2]
    /\ connectorResult = [ op |-> "use_host", index |-> 2, ok |-> FALSE, val |-> 2 ]


(***************************************************************************)
(* Properties of the heartbeat and outbound loops, checked under           *)
(* FairQueueSpec.                                                          *)
(***************************************************************************)
\* the heartbeat task puts a heartbeat on the outbound queue
HeartbeatEnqueued == outQ' = Append(outQ, heartbeat)

\* C21: after a successful handshake the heartbeat loop holds the only
\* sender of the outbound queue and the outbound loop its receiver, so in
\* every execution, also after the peer closed the stream, the inbound loop
\* ended and the dispatcher terminated, the outbound queue is never closed,
\* neither of the two loops terminates, and heartbeats are enqueued again
\* and again: at every point of every execution, whatever the inbound side
\* has done by then, another heartbeat is enqueued later.
C21_LoopsKeepEachOtherAlive ==
    /\ [](/\ outbound_senders = 1 /\ outbound_receiver_alive
          /\ hbPc \notin { "idle", "panicked" }
          /\ sendPc \notin { "idle", "done" })
    /\ []<><< HeartbeatEnqueued >>_vars

\* the peer closed the stream, the inbound loop and the dispatcher are over,
\* a write has failed since, and the heartbeat task has enqueued a heartbeat
\* that the outbound loop has not taken yet
C21_Witness ==
    /\ wsClosing /\ InboundEnded /\ DispatcherTerminated
    /\ lastWrite = "Err"
    /\ hbPc = "sleep" /\ sendPc = "recv" /\ outQ = << heartbeat >>

====
